---- MODULE Spec2Model ----
(***************************************************************************)
(* Variant resolver of packages/ui (lib/variants): createVariant and its   *)
(* helpers matchesCompoundVariant, resolveVariantClasses,                  *)
(* resolveSlotsVariantClasses, createVariantRegular, createVariantSlots.   *)
(*                                                                         *)
(* JavaScript values are records [type, val, obj]:                         *)
(*   type  the value's kind ("undefined", "null", "boolean", "string",     *)
(*         "number", "object");                                            *)
(*   val   for a string its words (a class string is a sequence of class   *)
(*         tokens, "" is <<>>), for a boolean <<"true">> or <<"false">>,    *)
(*         for a number its decimal digits;                                *)
(*   obj   for an object its own properties (a function on the keys).      *)
(* A plain object literal is a function from its own keys to values; the   *)
(* variants object, whose enumeration order matters, is the sequence of    *)
(* its entries in declaration order (its keys are identifiers, which       *)
(* for-in enumerates in creation order).                                   *)
(***************************************************************************)
EXTENDS Integers, Sequences, FiniteSets

VARIABLES config, pc, mode, closure, props, slotKeys, last

vars == <<config, pc, mode, closure, props, slotKeys, last>>

(***************************************************************************)
(* Bounds                                                                  *)
(***************************************************************************)
\* longest compoundVariants array of a configuration
MaxCompounds == 2

(***************************************************************************)
(* JavaScript values and the language operators the resolver uses          *)
(***************************************************************************)
NoObj == [k \in {} |-> 0]

Undefined == [type |-> "undefined", val |-> <<>>, obj |-> NoObj]

Null == [type |-> "null", val |-> <<>>, obj |-> NoObj]

Bool(b) == [type |-> "boolean", val |-> IF b THEN <<"true">> ELSE <<"false">>, obj |-> NoObj]

Str(words) == [type |-> "string", val |-> words, obj |-> NoObj]

Num(digits) == [type |-> "number", val |-> <<digits>>, obj |-> NoObj]

Obj(f) == [type |-> "object", val |-> <<>>, obj |-> f]

\* typeof v
TypeOf(v) == IF v.type = "null" THEN "object" ELSE v.type

\* ToBoolean(v): what `if (v)` and `!v` test
Truthy(v) ==
  CASE v.type = "undefined" -> FALSE
    [] v.type = "null" -> FALSE
    [] v.type = "boolean" -> v.val = <<"true">>
    [] v.type = "string" -> v.val # <<>>
    [] v.type = "number" -> v.val # <<"0">>
    [] OTHER -> TRUE

\* a === b on primitives
StrictEq(a, b) == a.type = b.type /\ a.val = b.val /\ a.type # "object"

RECURSIVE JoinWords(_)
JoinWords(words) ==
  IF words = <<>> THEN ""
  ELSE IF Len(words) = 1 THEN words[1]
  ELSE words[1] \o " " \o JoinWords(Tail(words))

\* String(v): the property key a value is converted to
String(v) ==
  CASE v.type = "undefined" -> "undefined"
    [] v.type = "null" -> "null"
    [] v.type = "object" -> "[object Object]"
    [] OTHER -> JoinWords(v.val)

\* a ?? b
Nullish(a, b) == IF a.type \in {"undefined", "null"} THEN b ELSE a

\* o[k] on a plain object: undefined when k is not a key
Get(o, k) == IF k \in DOMAIN o THEN o[k] ELSE Undefined

\* k in o
HasKey(o, k) == k \in DOMAIN o

\* the object without property k (rest destructuring)
Omit(o, k) == [x \in (DOMAIN o) \ {k} |-> o[x]]

(***************************************************************************)
(* cn, the class-name joiner (lib/cn): joins the truthy string fragments   *)
(* it is handed, in the order it is handed them.                           *)
(***************************************************************************)
RECURSIVE cnWords(_)
cnWords(args) ==
  IF args = <<>> THEN <<>>
  ELSE (IF Head(args).type = "string" /\ Truthy(Head(args)) THEN Head(args).val ELSE <<>>)
         \o cnWords(Tail(args))

cn(args) == Str(cnWords(args))

(***************************************************************************)
(* matchesCompoundVariant                                                  *)
(***************************************************************************)
EffectiveValue_FalsyFallsBack(p, defaults, key) ==
  IF Truthy(Get(p, key)) THEN Get(p, key) ELSE Get(defaults, key)

\* props[key] ?? defaults[key]: the value an axis takes for this call
EffectiveValue(p, defaults, key) == Nullish(Get(p, key), Get(defaults, key))

CompoundConditionHolds_FalseMatchesFalsy(propValue, compoundValue) ==
  IF compoundValue.type = "undefined" THEN TRUE
  ELSE IF TypeOf(compoundValue) = "boolean"
       THEN Truthy(propValue) = Truthy(compoundValue)
       ELSE StrictEq(propValue, compoundValue)

CompoundConditionHolds_TrueStrict(propValue, compoundValue) ==
  IF compoundValue.type = "undefined" THEN TRUE
  ELSE StrictEq(propValue, compoundValue)

\* one iteration of the loop of matchesCompoundVariant past the 'class' test:
\* TRUE when the iteration continues, FALSE when it returns false
CompoundConditionHolds(propValue, compoundValue) ==
  IF compoundValue.type = "undefined" THEN TRUE
  ELSE IF TypeOf(compoundValue) = "boolean"
       THEN IF StrictEq(compoundValue, Bool(FALSE))
            THEN StrictEq(propValue, Bool(FALSE))
            ELSE Truthy(propValue)
       ELSE StrictEq(propValue, compoundValue)

matchesCompoundVariant_AnyCondition(p, compound, defaults) ==
  \E key \in (DOMAIN compound) \ {"class"} :
     CompoundConditionHolds(EffectiveValue(p, defaults, key), compound[key])

\* the loop returns false at the first key whose iteration fails and true
\* when no key does
matchesCompoundVariant(p, compound, defaults) ==
  \A key \in DOMAIN compound :
     key = "class" \/
     CompoundConditionHolds(EffectiveValue(p, defaults, key), compound[key])

(***************************************************************************)
(* resolveVariantClasses                                                   *)
(***************************************************************************)
VariantAxisClasses_FalseSkipped(p, entry, defaults) ==
  LET propValue == EffectiveValue(p, defaults, entry.key)
      variantValue == Get(entry.def, String(propValue))
  IN IF ~ Truthy(propValue) THEN <<>>
     ELSE IF Truthy(variantValue) /\ TypeOf(variantValue) = "string" THEN <<variantValue>>
     ELSE <<>>

\* what one iteration of the axis loop pushes on classes, for the axis
\* entry = [key, def]; a definition is an object, so `!variantDef` is false
VariantAxisClasses(p, entry, defaults) ==
  LET propValue == EffectiveValue(p, defaults, entry.key)
      variantDef == entry.def
      stringKey == IF Truthy(propValue) THEN "true" ELSE "false"
      lookup == IF TypeOf(propValue) = "boolean" THEN stringKey ELSE String(propValue)
      variantValue == Get(variantDef, lookup)
  IN IF propValue.type \in {"undefined", "null"} THEN <<>>
     ELSE IF TypeOf(propValue) = "boolean" /\ ~HasKey(variantDef, stringKey) THEN <<>>
     ELSE IF Truthy(variantValue) /\ TypeOf(variantValue) = "string" THEN <<variantValue>>
     ELSE <<>>

RECURSIVE VariantLoop(_, _, _)
VariantLoop(p, variants, defaults) ==
  IF variants = <<>> THEN <<>>
  ELSE VariantAxisClasses(p, Head(variants), defaults)
         \o VariantLoop(p, Tail(variants), defaults)

\* what one iteration of the compound loop pushes on classes
CompoundClasses(p, compound, defaults) ==
  LET class == Get(compound, "class")
  IN IF matchesCompoundVariant(p, compound, defaults)
        /\ Truthy(class) /\ TypeOf(class) = "string"
     THEN <<class>>
     ELSE <<>>

RECURSIVE CompoundLoop(_, _, _)
CompoundLoop(p, compoundVariants, defaults) ==
  IF compoundVariants = <<>> THEN <<>>
  ELSE CompoundClasses(p, Head(compoundVariants), defaults)
         \o CompoundLoop(p, Tail(compoundVariants), defaults)

VariantClassList_CompoundsFirst(p, variants, compoundVariants, defaults) ==
  CompoundLoop(p, compoundVariants, defaults) \o VariantLoop(p, variants, defaults)

\* the array classes when the function reaches its return
VariantClassList(p, variants, compoundVariants, defaults) ==
  VariantLoop(p, variants, defaults) \o CompoundLoop(p, compoundVariants, defaults)

\* classes: the array handed to cn; out: the string returned
resolveVariantClasses(p, variants, compoundVariants, defaults) ==
  LET classes == VariantClassList(p, variants, compoundVariants, defaults)
  IN [classes |-> classes, out |-> cn(classes)]

(***************************************************************************)
(* resolveSlotsVariantClasses                                              *)
(***************************************************************************)
SlotAxisClasses_EverySlot(slotName, p, entry, defaults) ==
  LET propValue == EffectiveValue(p, defaults, entry.key)
      stringKey == IF Truthy(propValue) THEN "true" ELSE "false"
      lookup == IF TypeOf(propValue) = "boolean" THEN stringKey ELSE String(propValue)
      variantValue == Get(entry.def, lookup)
  IN IF propValue.type \in {"undefined", "null"} THEN <<>>
     ELSE IF Truthy(variantValue) /\ TypeOf(variantValue) = "object"
          THEN (IF HasKey(variantValue.obj, "root") THEN <<variantValue.obj["root"]>> ELSE <<>>)
                 \o (IF HasKey(variantValue.obj, "panel") THEN <<variantValue.obj["panel"]>> ELSE <<>>)
          ELSE <<>>

\* what one iteration of the axis loop pushes on classes, for the slot
\* slotName and the axis entry = [key, def]; no variant value is an array
SlotAxisClasses(slotName, p, entry, defaults) ==
  LET propValue == EffectiveValue(p, defaults, entry.key)
      variantDef == entry.def
      stringKey == IF Truthy(propValue) THEN "true" ELSE "false"
      lookup == IF TypeOf(propValue) = "boolean" THEN stringKey ELSE String(propValue)
      variantValue == Get(variantDef, lookup)
      slotVariant == Get(variantValue.obj, slotName)
  IN IF propValue.type \in {"undefined", "null"} THEN <<>>
     ELSE IF TypeOf(propValue) = "boolean" /\ ~HasKey(variantDef, stringKey) THEN <<>>
     ELSE IF Truthy(variantValue) /\ TypeOf(variantValue) = "object"
             /\ Truthy(slotVariant) /\ TypeOf(slotVariant) = "string"
          THEN <<slotVariant>>
          ELSE <<>>

RECURSIVE SlotVariantLoop(_, _, _, _)
SlotVariantLoop(slotName, p, slotsVariants, defaults) ==
  IF slotsVariants = <<>> THEN <<>>
  ELSE SlotAxisClasses(slotName, p, Head(slotsVariants), defaults)
         \o SlotVariantLoop(slotName, p, Tail(slotsVariants), defaults)

SlotCompoundClasses_ObjectToEverySlot(slotName, p, compound, defaults) ==
  LET class == Get(compound, "class")
  IN IF matchesCompoundVariant(p, compound, defaults) /\ Truthy(class)
     THEN IF TypeOf(class) = "string" THEN <<class>>
          ELSE (IF HasKey(class.obj, "root") THEN <<class.obj["root"]>> ELSE <<>>)
                 \o (IF HasKey(class.obj, "panel") THEN <<class.obj["panel"]>> ELSE <<>>)
     ELSE <<>>

\* what one iteration of the compound loop pushes on classes, for the slot
\* slotName
SlotCompoundClasses(slotName, p, compound, defaults) ==
  LET class == Get(compound, "class")
  IN IF matchesCompoundVariant(p, compound, defaults) /\ Truthy(class)
     THEN IF TypeOf(class) = "string" THEN <<class>>
          ELSE IF TypeOf(class) = "object" /\ Truthy(Get(class.obj, slotName))
               THEN <<Get(class.obj, slotName)>>
               ELSE <<>>
     ELSE <<>>

RECURSIVE SlotCompoundLoop(_, _, _, _)
SlotCompoundLoop(slotName, p, compoundVariants, defaults) ==
  IF compoundVariants = <<>> THEN <<>>
  ELSE SlotCompoundClasses(slotName, p, Head(compoundVariants), defaults)
         \o SlotCompoundLoop(slotName, p, Tail(compoundVariants), defaults)

SlotClassList(slotName, p, slotsVariants, compoundVariants, defaults) ==
  SlotVariantLoop(slotName, p, slotsVariants, defaults)
    \o SlotCompoundLoop(slotName, p, compoundVariants, defaults)

\* classes: the array handed to cn; out: the string returned
resolveSlotsVariantClasses(slotName, p, slotsVariants, compoundVariants, defaults) ==
  LET classes == SlotClassList(slotName, p, slotsVariants, compoundVariants, defaults)
  IN [classes |-> classes, out |-> cn(classes)]

(***************************************************************************)
(* createVariantRegular, createVariantSlots, createVariant                 *)
(***************************************************************************)
\* the destructuring of config at the head of createVariantRegular: what the
\* returned function closes over
RegularClosure(c) ==
  [base |-> IF c.base.type = "undefined" THEN Str(<<>>) ELSE c.base,
   slots |-> NoObj,
   variants |-> IF "variants" \in c.own THEN c.variants ELSE <<>>,
   compoundVariants |-> IF "compoundVariants" \in c.own THEN c.compoundVariants ELSE <<>>,
   defaultVariants |-> IF "defaultVariants" \in c.own THEN c.defaultVariants ELSE NoObj]

createVariantRegular_KeepsClassName(cl, p) ==
  LET className == Get(p, "className")
      resolved == resolveVariantClasses(p, cl.variants,
                                        cl.compoundVariants, cl.defaultVariants)
      args == <<cl.base, resolved.out, className>>
  IN [classes |-> resolved.classes, args |-> args, out |-> cn(args)]

\* the body of the function createVariantRegular returns, called with p:
\* classes is the array resolveVariantClasses built, args the fragments
\* handed to cn, out the string returned
createVariantRegular(cl, p) ==
  LET className == Get(p, "className")
      variantProps == Omit(p, "className")
      resolved == resolveVariantClasses(variantProps, cl.variants,
                                        cl.compoundVariants, cl.defaultVariants)
      variantClasses == resolved.out
      args == <<cl.base, variantClasses, className>>
  IN [classes |-> resolved.classes, args |-> args, out |-> cn(args)]

\* the destructuring of config at the head of createVariantSlots
SlotsClosure(c) ==
  [base |-> Undefined,
   slots |-> c.slots.obj,
   variants |-> IF "variants" \in c.own THEN c.variants ELSE <<>>,
   compoundVariants |-> IF "compoundVariants" \in c.own THEN c.compoundVariants ELSE <<>>,
   defaultVariants |-> IF "defaultVariants" \in c.own THEN c.defaultVariants ELSE NoObj]

\* the keys of the object the function createVariantSlots returns builds
SlotResolverKeys(cl) == DOMAIN cl.slots

createVariantSlots_ClassNameFirst(cl, p, slotName, slotProps) ==
  LET resolved == resolveSlotsVariantClasses(slotName, p, cl.variants,
                                             cl.compoundVariants, cl.defaultVariants)
      args == <<Get(slotProps, "className"), cl.slots[slotName], resolved.out>>
  IN [classes |-> resolved.classes, args |-> args, out |-> cn(args)]

\* the body of the resolver stored under slotName by the call with p,
\* called with slotProps
createVariantSlots(cl, p, slotName, slotProps) ==
  LET baseClasses == cl.slots[slotName]
      resolved == resolveSlotsVariantClasses(slotName, p, cl.variants,
                                             cl.compoundVariants, cl.defaultVariants)
      slotVariantClasses == resolved.out
      args == <<baseClasses, slotVariantClasses, Get(slotProps, "className")>>
  IN [classes |-> resolved.classes, args |-> args, out |-> cn(args)]

createVariant_InOnly(c) ==
  IF "slots" \in c.own THEN "slots" ELSE "regular"

\* the runtime detection of createVariant
createVariant(c) ==
  IF "slots" \in c.own /\ c.slots.type # "undefined" THEN "slots" ELSE "regular"

(***************************************************************************)
(* The configurations and props the resolver is run on                     *)
(***************************************************************************)
Def1(k, v) == [x \in {k} |-> v]

Def2(k1, v1, k2, v2) == [x \in {k1, k2} |-> IF x = k1 THEN v1 ELSE v2]

Class(w) == Str(<<w>>)

\* variants of a single-element component
SizeAxis == [key |-> "size", def |-> Def2("sm", Class("text-sm"), "md", Class("text-base"))]

DisabledTrueAxis == [key |-> "disabled", def |-> Def1("true", Class("opacity-50"))]

DisabledBothAxis ==
  [key |-> "disabled", def |-> Def2("true", Class("opacity-50"), "false", Class("opacity-100"))]

ClassNameAxis == [key |-> "className", def |-> Def1("custom", Class("boom"))]

\* variants of a component with the slots root and panel
SlotSizeAxis ==
  [key |-> "size",
   def |-> Def2("sm", Obj(Def1("panel", Class("max-w-sm"))),
                "md", Obj(Def1("panel", Class("max-w-md"))))]

SlotDisabledTrueAxis ==
  [key |-> "disabled",
   def |-> Def1("true", Obj(Def2("root", Class("cursor-not-allowed"), "panel", Class("faded"))))]

SlotDisabledBothAxis ==
  [key |-> "disabled",
   def |-> Def2("true", Obj(Def2("root", Class("cursor-not-allowed"), "panel", Class("faded"))),
                "false", Obj(Def1("root", Class("cursor-pointer"))))]

VariantsChoices ==
  { <<>>,
    <<SizeAxis, DisabledTrueAxis>>,
    <<DisabledBothAxis, SizeAxis, ClassNameAxis>>,
    <<SlotSizeAxis, SlotDisabledTrueAxis>>,
    <<SlotDisabledBothAxis, SlotSizeAxis>> }

CompoundFalse ==
  [k \in {"size", "disabled", "class"} |->
     CASE k = "size" -> Class("md") [] k = "disabled" -> Bool(FALSE) [] OTHER -> Class("shadow")]

CompoundTrue ==
  [k \in {"size", "disabled", "class"} |->
     CASE k = "size" -> Undefined [] k = "disabled" -> Bool(TRUE) [] OTHER -> Class("ring")]

CompoundAlways == Def1("class", Class("always"))

CompoundSlotClass ==
  Def2("disabled", Bool(FALSE), "class", Obj(Def1("panel", Class("hover"))))

CompoundChoices == {CompoundFalse, CompoundTrue, CompoundAlways, CompoundSlotClass}

\* the arrays of at most MaxCompounds distinct compound variants
CompoundArrays ==
  UNION { {a \in [1..n -> CompoundChoices] : \A i, j \in 1..n : a[i] = a[j] => i = j} :
            n \in 0..MaxCompounds }

DefaultsChoices ==
  { NoObj,
    Def2("size", Class("md"), "disabled", Bool(FALSE)),
    Def2("disabled", Bool(TRUE), "className", Class("custom")) }

BaseClasses == Str(<<"px-4", "py-2">>)

SlotsObject == Obj(Def2("root", Str(<<"fixed", "inset-0">>), "panel", Str(<<"bg-white", "rounded">>)))

\* own: the keys base and slots the config has; base and slots: their values
ShapeChoices ==
  { [own |-> {"base"}, base |-> BaseClasses, slots |-> Undefined],
    [own |-> {}, base |-> Undefined, slots |-> Undefined],
    [own |-> {"base", "slots"}, base |-> BaseClasses, slots |-> Undefined],
    [own |-> {"slots"}, base |-> Undefined, slots |-> SlotsObject],
    [own |-> {"slots"}, base |-> Undefined, slots |-> Null] }

ConfigOf(shape, variants, compoundVariants, defaults) ==
  [own |-> shape.own
             \cup (IF variants # <<>> THEN {"variants"} ELSE {})
             \cup (IF compoundVariants # <<>> THEN {"compoundVariants"} ELSE {})
             \cup (IF defaults # NoObj THEN {"defaultVariants"} ELSE {}),
   base |-> shape.base,
   slots |-> shape.slots,
   variants |-> variants,
   compoundVariants |-> compoundVariants,
   defaultVariants |-> defaults]

Configs ==
  { ConfigOf(sh, v, cs, d) :
      sh \in ShapeChoices, v \in VariantsChoices, cs \in CompoundArrays, d \in DefaultsChoices }

SizeValues == {Undefined, Class("sm"), Class("md")}

DisabledValues ==
  {Undefined, Null, Bool(TRUE), Bool(FALSE), Str(<<>>), Class("yes"), Num("0"), Num("1")}

ClassNameValues == {Undefined, Class("custom")}

PropKeys == {"size", "disabled", "className"}

PropsChoices ==
  { [k \in PropKeys |-> CASE k = "size" -> s [] k = "disabled" -> d [] OTHER -> c] :
      s \in SizeValues, d \in DisabledValues, c \in ClassNameValues }

SlotPropsChoices == { Def1("className", c) : c \in ClassNameValues }

(***************************************************************************)
(* The program: a module creates its variant function from config, the     *)
(* component calls it with props and, in slots mode, calls the resolvers   *)
(* of the object it got back. config and props are the inputs of a run.    *)
(***************************************************************************)
NoCall == [kind |-> "none", slot |-> "", className |-> Undefined,
           classes |-> <<>>, args |-> <<>>, out |-> Undefined]

NoClosure == [base |-> Undefined, slots |-> NoObj, variants |-> <<>>,
              compoundVariants |-> <<>>, defaultVariants |-> NoObj]

Init ==
  /\ config \in Configs
  /\ props \in PropsChoices
  /\ pc = "module"
  /\ mode = "none"
  /\ closure = NoClosure
  /\ slotKeys = {}
  /\ last = NoCall

\* createVariant(config)
CreateVariant ==
  /\ pc = "module"
  /\ mode' = createVariant(config)
  /\ closure' = IF createVariant(config) = "slots" THEN SlotsClosure(config)
                ELSE RegularClosure(config)
  /\ pc' = "created"
  /\ UNCHANGED <<config, props, slotKeys, last>>

\* button(props), the function createVariantRegular returned
CallRegular ==
  /\ pc = "created"
  /\ mode = "regular"
  /\ LET r == createVariantRegular(closure, props)
     IN last' = [kind |-> "regular", slot |-> "", className |-> Get(props, "className"),
                 classes |-> r.classes, args |-> r.args, out |-> r.out]
  /\ pc' = "called"
  /\ UNCHANGED <<config, props, mode, closure, slotKeys>>

\* modal(props), the function createVariantSlots returned: builds the resolvers
CallSlots ==
  /\ pc = "created"
  /\ mode = "slots"
  /\ slotKeys' = SlotResolverKeys(closure)
  /\ pc' = "called"
  /\ UNCHANGED <<config, props, mode, closure, last>>

CallSlotResolver_SharedClasses(slotName, slotProps) ==
  /\ pc \in {"called", "resolved"}
  /\ mode = "slots"
  /\ slotName \in slotKeys
  /\ LET r == createVariantSlots(closure, props, slotName, slotProps)
         classes == last.classes \o r.classes
         args == <<r.args[1], cn(classes), r.args[3]>>
     IN last' = [kind |-> "slot", slot |-> slotName, className |-> Get(slotProps, "className"),
                 classes |-> classes, args |-> args, out |-> cn(args)]
  /\ pc' = "resolved"
  /\ UNCHANGED <<config, props, mode, closure, slotKeys>>

\* result[slotName](slotProps), a resolver of the object the call returned
CallSlotResolver(slotName, slotProps) ==
  /\ pc \in {"called", "resolved"}
  /\ mode = "slots"
  /\ slotName \in slotKeys
  /\ LET r == createVariantSlots(closure, props, slotName, slotProps)
     IN last' = [kind |-> "slot", slot |-> slotName, className |-> Get(slotProps, "className"),
                 classes |-> r.classes, args |-> r.args, out |-> r.out]
  /\ pc' = "resolved"
  /\ UNCHANGED <<config, props, mode, closure, slotKeys>>

Next ==
  \/ CreateVariant
  \/ CallRegular
  \/ CallSlots
  \/ \E s \in slotKeys, sp \in SlotPropsChoices : CallSlotResolver(s, sp)

Spec == Init /\ [][Next]_vars

(***************************************************************************)
(* What the claims are stated with                                         *)
(***************************************************************************)
\* the variant props the last call resolved against
ResolvedProps == IF last.kind = "regular" THEN Omit(props, "className") ELSE props

\* the value of axis key for the last call: the prop unless it is undefined
\* or null, the default otherwise
AxisValue(key) ==
  LET v == Get(ResolvedProps, key)
  IN IF v = Undefined \/ v = Null THEN Get(config.defaultVariants, key) ELSE v

FalsyValues == {Undefined, Null, Bool(FALSE), Str(<<>>), Num("0")}

\* a compound condition is satisfied by the value of its axis
Satisfied(value, condition) ==
  CASE condition = Bool(FALSE) -> value = Bool(FALSE)
    [] condition = Bool(TRUE) -> value \notin FalsyValues
    [] OTHER -> value = condition

\* the keys of a compound that state a condition
Conditions(compound) == {k \in (DOMAIN compound) \ {"class"} : compound[k] # Undefined}

AllSatisfied(compound) ==
  \A k \in Conditions(compound) : Satisfied(AxisValue(k), compound[k])

\* the class strings a variant value lists, the class strings of an axis
ValueClassSet(value) ==
  IF value.type = "string" THEN {value} ELSE {value.obj[s] : s \in DOMAIN value.obj}

AxisClassSet(entry) == UNION {ValueClassSet(entry.def[k]) : k \in DOMAIN entry.def}

\* the class strings of a compound variant
CompoundClassSet(compound) == ValueClassSet(Get(compound, "class"))

\* the places of the axes and of the compounds a class string comes from
AxisPlaces(class) ==
  {i \in 1..Len(config.variants) : class \in AxisClassSet(config.variants[i])}

CompoundPlaces(class) ==
  {i \in 1..Len(config.compoundVariants) : class \in CompoundClassSet(config.compoundVariants[i])}

HasClass(class) == \E i \in 1..Len(last.classes) : last.classes[i] = class

\* C1: createVariant selects slots mode exactly when config has a slots
\* property whose value is not undefined (slots: undefined is regular): the
\* regular function yields one class string, the slots function an object
\* of resolvers, one per slot.
C1_ModeSelection ==
  pc # "module" =>
    /\ mode = (IF "slots" \in config.own /\ config.slots # Undefined THEN "slots" ELSE "regular")
    /\ (pc = "called" /\ mode = "regular") =>
          last.kind = "regular" /\ last.out.type = "string" /\ slotKeys = {}
    /\ (pc = "called" /\ mode = "slots") =>
          last.kind = "none" /\ slotKeys = DOMAIN config.slots.obj
    /\ (pc = "resolved") => mode = "slots" /\ last.kind = "slot"

C1_Witness ==
  /\ pc = "called"
  /\ "slots" \in config.own /\ config.slots = Undefined
  /\ last.kind = "regular"

\* C2: in regular mode the fragments handed to the joiner are the base
\* classes, then the resolved variant classes, then the caller's className;
\* className is not among the props the variant classes are resolved from,
\* so the prop never selects a class of an axis named className.
C2_RegularFragments ==
  last.kind = "regular" =>
    /\ Len(last.args) = 3
    /\ last.args[1] = (IF "base" \in config.own THEN config.base ELSE Str(<<>>))
    /\ last.args[2] = cn(last.classes)
    /\ last.args[3] = props["className"]
    /\ \A i \in 1..Len(config.variants) :
         config.variants[i].key = "className" =>
           \A class \in AxisClassSet(config.variants[i]) :
              HasClass(class) =>
                 Get(config.variants[i].def,
                     String(Get(config.defaultVariants, "className"))) = class

C2_Witness ==
  /\ last.kind = "regular"
  /\ props["className"] = Class("custom")
  /\ \E i \in 1..Len(config.variants) : config.variants[i].key = "className"
  /\ ~ HasKey(config.defaultVariants, "className")
  /\ AxisValue("size") = Class("md")
  /\ last.out = Str(<<"px-4", "py-2", "text-base", "custom">>)

\* C3: in both modes every class of a matching compound variant comes after
\* every class of a variant axis, the axis classes are in the declaration
\* order of the axes and the compound classes in the order of the
\* compoundVariants array.
C3_CompoundsAfterVariants ==
  last.kind \in {"regular", "slot"} =>
    \A i, j \in 1..Len(last.classes) :
      i < j =>
        /\ AxisPlaces(last.classes[i]) \cup CompoundPlaces(last.classes[i]) # {}
        /\ ~ (CompoundPlaces(last.classes[i]) # {} /\ AxisPlaces(last.classes[j]) # {})
        /\ \A a \in AxisPlaces(last.classes[i]), b \in AxisPlaces(last.classes[j]) : a < b
        /\ \A a \in CompoundPlaces(last.classes[i]), b \in CompoundPlaces(last.classes[j]) : a < b

C3_Witness ==
  /\ last.kind = "slot"
  /\ Len(last.classes) = 4
  /\ AxisPlaces(last.classes[1]) = {1} /\ AxisPlaces(last.classes[2]) = {2}
  /\ CompoundPlaces(last.classes[3]) = {1} /\ CompoundPlaces(last.classes[4]) = {2}

\* C4: a compound variant matches if and only if every condition it states
\* (every key but class whose value is not undefined) is satisfied by the
\* value of that axis; one unsatisfied condition is enough for no match and
\* a compound with no condition always matches. A compound whose class is a
\* string adds it exactly when it matches.
C4_CompoundMatchesIffAll ==
  last.kind \in {"regular", "slot"} =>
    \A i \in 1..Len(config.compoundVariants) :
      LET compound == config.compoundVariants[i]
      IN Get(compound, "class").type = "string" =>
           (HasClass(compound["class"]) <=> AllSatisfied(compound))

C4_Witness ==
  /\ last.kind = "regular"
  /\ Len(config.compoundVariants) = 2
  /\ config.compoundVariants[1] = CompoundFalse
  /\ config.compoundVariants[2] = CompoundAlways
  /\ AxisValue("size") = Class("md")
  /\ AxisValue("disabled") = Bool(TRUE)
  /\ HasClass(Class("always")) /\ ~ HasClass(Class("shadow"))

\* a compound is seen to match when one of its class strings was added
Matched(compound) == \E class \in CompoundClassSet(compound) : HasClass(class)

\* C5 as stated: a condition of false is met only by a prop that is itself
\* false, so a call whose prop is undefined or null never matches it.
C5_FalseNeedsFalseProp ==
  last.kind \in {"regular", "slot"} =>
    \A i \in 1..Len(config.compoundVariants) :
      LET compound == config.compoundVariants[i]
      IN \A k \in Conditions(compound) :
           (compound[k] = Bool(FALSE) /\ Matched(compound)) =>
              Get(ResolvedProps, k) = Bool(FALSE)

\* C5, amended: a condition of false is met only when the value of the axis
\* (the prop, or the default when the prop is undefined or null) is
\* explicitly false; undefined, null, true, "" and 0 do not meet it.
C5_FalseNeedsFalseValue ==
  last.kind \in {"regular", "slot"} =>
    \A i \in 1..Len(config.compoundVariants) :
      LET compound == config.compoundVariants[i]
      IN \A k \in Conditions(compound) :
           (compound[k] = Bool(FALSE) /\ Matched(compound)) =>
              AxisValue(k) = Bool(FALSE)

C5_Witness ==
  /\ last.kind = "regular"
  /\ props["disabled"] = Undefined
  /\ Get(config.defaultVariants, "disabled") = Bool(FALSE)
  /\ \E i \in 1..Len(config.compoundVariants) : config.compoundVariants[i] = CompoundFalse
  /\ HasClass(Class("shadow"))

\* C6: a condition of true is met when the value of the axis is truthy
\* (true, a non-empty string, a non-zero number) and is not met when it is
\* false, undefined, null, the empty string or 0.
C6_TrueMatchesTruthy ==
  last.kind \in {"regular", "slot"} =>
    \A i \in 1..Len(config.compoundVariants) :
      LET compound == config.compoundVariants[i]
      IN (/\ Get(compound, "class").type = "string"
          /\ Conditions(compound) # {}
          /\ \A k \in Conditions(compound) : compound[k] = Bool(TRUE))
         => (HasClass(compound["class"]) <=>
               \A k \in Conditions(compound) :
                  \/ AxisValue(k) = Bool(TRUE)
                  \/ AxisValue(k).type = "string" /\ AxisValue(k).val # <<>>
                  \/ AxisValue(k).type = "number" /\ AxisValue(k).val # <<"0">>)

C6_Witness ==
  /\ last.kind = "regular"
  /\ AxisValue("disabled") = Num("1")
  /\ \E i \in 1..Len(config.compoundVariants) : config.compoundVariants[i] = CompoundTrue
  /\ HasClass(Class("ring"))

\* the key of a variant definition a value selects
AxisKey(value) == IF value.type = "boolean" THEN value.val[1] ELSE String(value)

\* what a variant value or a compound class lists for the last call: itself
\* when it is a class string (a variant value in regular mode, a compound
\* class in either mode), its entry for the slot when it is an object
Listed(value, stringsCount) ==
  IF value.type = "string"
  THEN (IF stringsCount /\ value.val # <<>> THEN <<value>> ELSE <<>>)
  ELSE IF value.type = "object" /\ last.kind = "slot" /\ HasKey(value.obj, last.slot)
       THEN <<value.obj[last.slot]>>
       ELSE <<>>

\* the class strings of axis entry among the classes of the last call
Contributed(entry) == {class \in AxisClassSet(entry) : HasClass(class)}

Elements(seq) == {seq[i] : i \in 1..Len(seq)}

\* C7: a boolean value of an axis selects the key 'true' or 'false' of its
\* definition: the classes under that key are applied when the key exists
\* and the axis contributes nothing when it does not, in both modes.
C7_BooleanSelectsKey ==
  last.kind \in {"regular", "slot"} =>
    \A i \in 1..Len(config.variants) :
      LET entry == config.variants[i]
          value == AxisValue(entry.key)
          key == IF value = Bool(TRUE) THEN "true" ELSE "false"
      IN value \in {Bool(TRUE), Bool(FALSE)} =>
           Contributed(entry) =
             (IF key \in DOMAIN entry.def
              THEN Elements(Listed(entry.def[key], last.kind = "regular"))
              ELSE {})

C7_Witness ==
  /\ last.kind = "regular"
  /\ props["disabled"] = Bool(FALSE)
  /\ \E i \in 1..Len(config.variants) : config.variants[i] = DisabledTrueAxis
  /\ last.out = Str(<<"px-4", "py-2">>)

\* the classes the axes and the compounds add, from the values of the axes
ExpectedAxisAt(i) ==
  LET entry == config.variants[i]
      value == AxisValue(entry.key)
  IN IF value = Undefined \/ value = Null \/ AxisKey(value) \notin DOMAIN entry.def
     THEN <<>>
     ELSE Listed(entry.def[AxisKey(value)], last.kind = "regular")

RECURSIVE ExpectedAxes(_)
ExpectedAxes(n) == IF n = 0 THEN <<>> ELSE ExpectedAxes(n - 1) \o ExpectedAxisAt(n)

ExpectedCompoundAt(i) ==
  IF AllSatisfied(config.compoundVariants[i])
  THEN Listed(Get(config.compoundVariants[i], "class"), TRUE)
  ELSE <<>>

RECURSIVE ExpectedCompounds(_)
ExpectedCompounds(n) ==
  IF n = 0 THEN <<>> ELSE ExpectedCompounds(n - 1) \o ExpectedCompoundAt(n)

\* C8: the value of an axis is the prop when the prop is neither undefined
\* nor null and the default otherwise, so a passed value (an explicit false
\* against a default of true too) overrides the default and an axis with
\* neither is skipped; the variant classes and the compound matches of a call
\* are those of these values.
C8_EffectiveValue ==
  last.kind \in {"regular", "slot"} =>
    last.classes = ExpectedAxes(Len(config.variants))
                     \o ExpectedCompounds(Len(config.compoundVariants))

C8_Witness ==
  /\ last.kind = "regular"
  /\ props["disabled"] = Bool(FALSE)
  /\ Get(config.defaultVariants, "disabled") = Bool(TRUE)
  /\ props["size"] = Class("md")
  /\ HasClass(Class("opacity-100"))
  /\ HasClass(Class("shadow"))

\* C9: in slots mode the object a call returns has exactly the slot names of
\* config.slots as keys; each resolver hands the joiner the slot's base
\* classes, then the slot's variant and compound classes resolved from the
\* props of that call, then the className it is called with.
C9_SlotResolvers ==
  /\ (mode = "slots" /\ pc \in {"called", "resolved"}) => slotKeys = DOMAIN config.slots.obj
  /\ last.kind = "slot" =>
       /\ last.slot \in DOMAIN config.slots.obj
       /\ last.args = <<config.slots.obj[last.slot], cn(last.classes), last.className>>
       /\ \A i \in 1..Len(last.classes) :
            \/ \E a \in AxisPlaces(last.classes[i]) :
                 <<last.classes[i]>> = ExpectedAxisAt(a)
            \/ \E c \in CompoundPlaces(last.classes[i]) :
                 <<last.classes[i]>> = ExpectedCompoundAt(c)

C9_Witness ==
  /\ last.kind = "slot"
  /\ last.slot = "panel"
  /\ last.className = Class("custom")
  /\ props["size"] = Class("md")
  /\ slotKeys = {"root", "panel"}
  /\ last.out = Str(<<"bg-white", "rounded", "max-w-md", "custom">>)

\* the class tokens of the fragments the last call handed to the joiner
ResultWords ==
  UNION ({Elements(last.args[i].val) : i \in 1..Len(last.args)}
           \cup {Elements(last.classes[i].val) : i \in 1..Len(last.classes)})

\* C10: a selected variant value gives slot s the class string it lists
\* under s and nothing when it does not list s; the base classes of another
\* slot are not in the result of s, and a className is in it only when it
\* was given to this resolver call.
C10_SlotsIndependent ==
  last.kind = "slot" =>
    /\ \A i \in 1..Len(config.variants) :
         LET entry == config.variants[i]
             value == AxisValue(entry.key)
         IN (/\ value # Undefined /\ value # Null
             /\ AxisKey(value) \in DOMAIN entry.def
             /\ entry.def[AxisKey(value)].type = "object")
            => Contributed(entry) =
                 (IF last.slot \in DOMAIN entry.def[AxisKey(value)].obj
                  THEN {entry.def[AxisKey(value)].obj[last.slot]}
                  ELSE {})
    /\ \A other \in (DOMAIN config.slots.obj) \ {last.slot} :
         Elements(config.slots.obj[other].val) \cap ResultWords = {}
    /\ "custom" \in ResultWords => last.className = Class("custom")

C10_Witness ==
  /\ last.kind = "slot"
  /\ last.slot = "root"
  /\ AxisValue("size") = Class("md")
  /\ \E i \in 1..Len(config.variants) : config.variants[i] = SlotSizeAxis
  /\ last.out = Str(<<"fixed", "inset-0">>)

\* C11: in slots mode a matching compound variant whose class is a string
\* adds that class to every slot, one whose class is an object adds
\* class[s] to slot s for the slots it names and nothing to the others, and
\* a compound that does not match adds nothing to any slot.
C11_SlotCompoundClasses ==
  last.kind = "slot" =>
    \A i \in 1..Len(config.compoundVariants) :
      LET compound == config.compoundVariants[i]
          class == Get(compound, "class")
          added == {c \in CompoundClassSet(compound) : HasClass(c)}
      IN added =
           (IF ~ AllSatisfied(compound) THEN {}
            ELSE IF class.type = "string" THEN {class}
            ELSE IF class.type = "object" /\ last.slot \in DOMAIN class.obj
                 THEN {class.obj[last.slot]}
                 ELSE {})

C11_Witness ==
  /\ last.kind = "slot"
  /\ last.slot = "root"
  /\ config.compoundVariants = <<CompoundSlotClass, CompoundAlways>>
  /\ AxisValue("disabled") = Bool(FALSE)
  /\ HasClass(Class("always"))
  /\ ~ HasClass(Class("hover"))

\* the fragments a call hands the joiner, from config, props and, for a
\* resolver, its slot and the className it is called with
ExpectedClasses ==
  ExpectedAxes(Len(config.variants)) \o ExpectedCompounds(Len(config.compoundVariants))

ExpectedArgs ==
  IF last.kind = "regular"
  THEN <<(IF "base" \in config.own THEN config.base ELSE Str(<<>>)),
         cn(ExpectedClasses), props["className"]>>
  ELSE <<config.slots.obj[last.slot], cn(ExpectedClasses), last.className>>

\* the result of the last call is the one its inputs determine
ResultDetermined ==
  last.kind \in {"regular", "slot"} =>
    /\ last.classes = ExpectedClasses
    /\ last.args = ExpectedArgs
    /\ last.out = cn(ExpectedArgs)

\* C12: resolution is deterministic and stateless: the fragments of a call
\* are determined by config and props (and, for a slot resolver, its slot
\* and className) whatever calls came before, so equal inputs give equal
\* fragments and the resolvers of one result give each slot the same result
\* in any order and however often they are called; no call changes the
\* config, the props or the defaults and the rest of what the variant
\* function closed over.
C12_DeterministicStateless ==
  /\ []ResultDetermined
  /\ [][/\ config' = config
        /\ props' = props
        /\ pc # "module" => (closure' = closure /\ mode' = mode)
        /\ pc \in {"called", "resolved"} => slotKeys' = slotKeys
        /\ (/\ last.kind = "slot" /\ last'.kind = "slot"
            /\ last'.slot = last.slot /\ last'.className = last.className)
           => last' = last]_vars

C12_Witness ==
  /\ pc = "resolved"
  /\ last.slot = "panel"
  /\ last.className = Undefined
  /\ Len(last.classes) = 3
  /\ config.defaultVariants # NoObj
  /\ closure.defaultVariants = config.defaultVariants

====
